---- MODULE Spec2Model ----
(***************************************************************************)
(* Model of job_scraper.py: the listing parser (scrape_job_ads), the       *)
(* deadline parser (parse_deadline), the identifier generator              *)
(* (generate_id), the document extractor (process_pdf) and the             *)
(* deduplicating orchestrator (process_input) over the job_ads table.      *)
(*                                                                         *)
(* Text is modelled as a sequence of lexical tokens: a whitespace run, a   *)
(* literal run of non-whitespace characters, a fragment of the shape       *)
(* \w+ \d{2},? \d{4} ("en") or a fragment of the shape                     *)
(* \d{2}\.\d{2}\.\d{4} ("de").  The regular expressions of the source are  *)
(* matched over these tokens.  md5 is modelled as an injective symbolic    *)
(* digest of the string it is given.                                       *)
(***************************************************************************)
EXTENDS Integers, Sequences, FiniteSets, TLC

VARIABLES
    db,             \* committed rows of table job_ads
    txn,            \* rows INSERTed in the open transaction of conn
    pc,             \* position of process_input / process_pdf
    content,        \* markup returned by get_content in this run
    job_ads,        \* list returned by scrape_job_ads in this run
    i,              \* index of the candidate the for loop is at
    temp_files,     \* temporary files that exist on disk
    temp_file_path, \* process_pdf's local temp_file_path (0: unset)
    runs,           \* number of process_input calls started
    db_before,      \* history: db when the current run started
    outcome,        \* history: per candidate of this run, what happened
    extracted,      \* history: <<id, text>> for which process_pdf returned
    fatal,          \* history: which step raised into the outer handler
    prev,           \* history: summary of the previous run
    arg,            \* input of a parser function applied on its own
    ret             \* result of a parser function applied on its own

vars == <<db, txn, pc, content, job_ads, i, temp_files, temp_file_path, runs,
          db_before, outcome, extracted, fatal, prev, arg, ret>>

-----------------------------------------------------------------------------
(* Bounds *)

MaxTextLen == 4
MaxItems == 2
MaxRuns == 2

-----------------------------------------------------------------------------
(* Tokens of text *)

WS == [k |-> "ws"]
Lit(s) == [k |-> "lit", s |-> s]
En(month, day, comma, year) ==
    [k |-> "en", month |-> month, day |-> day, comma |-> comma, year |-> year]
De(day, month, year) == [k |-> "de", day |-> day, month |-> month, year |-> year]

None == [k |-> "None"]
Date(y, m, d) == [k |-> "date", year |-> y, month |-> m, day |-> d]

DigitStr == <<"1", "2", "3", "4", "5", "6", "7", "8", "9">>
Digit(n) == IF n = 0 THEN "0" ELSE DigitStr[n]
Pad2(n) == Digit((n \div 10) % 10) \o Digit(n % 10)
Pad4(n) == Pad2(n \div 100) \o Pad2(n % 100)

\* date.__str__ / date.isoformat: YYYY-MM-DD
isoformat(d) == Pad4(d.year) \o "-" \o Pad2(d.month) \o "-" \o Pad2(d.day)

MonthNames == <<"January", "February", "March", "April", "May", "June", "July",
                "August", "September", "October", "November", "December">>
MonthNumber(name) ==
    IF \E m \in 1..12 : MonthNames[m] = name
    THEN CHOOSE m \in 1..12 : MonthNames[m] = name
    ELSE 0

IsLeap(y) == (y % 4 = 0 /\ y % 100 # 0) \/ y % 400 = 0
DaysInMonth(y, m) ==
    IF m = 2 THEN (IF IsLeap(y) THEN 29 ELSE 28)
    ELSE IF m \in {4, 6, 9, 11} THEN 30 ELSE 31

ValueError == [k |-> "ValueError"]

\* datetime.strptime(date_str, fmt).date() for the two formats of the source
strptime(frag, fmt) ==
    LET m == IF fmt = "%d.%m.%Y"
             THEN (IF frag.k = "de" THEN frag.month ELSE 0)
             ELSE (IF frag.k = "en" /\ frag.comma THEN MonthNumber(frag.month) ELSE 0)
    IN IF m \in 1..12 /\ frag.year >= 1 /\ frag.day \in 1..DaysInMonth(frag.year, m)
       THEN Date(frag.year, m, frag.day)
       ELSE ValueError

-----------------------------------------------------------------------------
(* re.search over tokens *)

NoMatch == [k |-> "NoMatch"]

RECURSIVE SkipWs(_, _)
\* \s* : the index of the first token at or after j that is not whitespace
SkipWs(text, j) ==
    IF j <= Len(text) /\ text[j] = WS THEN SkipWs(text, j + 1) ELSE j

\* the groups of the three patterns: \w+ \d{2},? \d{4} ("en"),
\* \d{2}\.\d{2}\.\d{4} ("de") and \S+ ("nonspace")
HasShape(tok, shape) ==
    IF shape = "nonspace" THEN tok.k # "ws" ELSE tok.k = shape

\* label \s* ( group ) matched with the label at token n
MatchesAt(text, n, label, shape) ==
    /\ text[n] = Lit(label)
    /\ SkipWs(text, n + 1) <= Len(text)
    /\ HasShape(text[SkipWs(text, n + 1)], shape)

\* re.search: the leftmost match; its value is the index where group 1 starts
re_search(text, label, shape) ==
    IF \E n \in 1..Len(text) : MatchesAt(text, n, label, shape)
    THEN LET n == CHOOSE n \in 1..Len(text) :
                      /\ MatchesAt(text, n, label, shape)
                      /\ \A q \in 1..(n - 1) : ~MatchesAt(text, q, label, shape)
         IN [k |-> "match", start |-> SkipWs(text, n + 1)]
    ELSE NoMatch

\* the patterns list of parse_deadline, in order
patterns_swapped ==
    << [label |-> "Bewerbungsschluss:", shape |-> "de"],
       [label |-> "Deadline:", shape |-> "en"] >>
patterns ==
    << [label |-> "Deadline:", shape |-> "en"],
       [label |-> "Bewerbungsschluss:", shape |-> "de"] >>

pattern_search(pattern, text) == re_search(text, pattern.label, pattern.shape)

\* '.' in date_str
HasDot(frag) == frag.k = "de"

RECURSIVE parse_deadline_from(_, _)
\* the for loop of parse_deadline from pattern number p on
parse_deadline_from(text, p) ==
    IF p > Len(patterns) THEN None
    ELSE LET match == pattern_search(patterns[p], text)
         IN IF match = NoMatch THEN parse_deadline_from(text, p + 1)
            ELSE LET date_str == text[match.start]
                     d == IF HasDot(date_str)
                          THEN strptime(date_str, "%d.%m.%Y")
                          ELSE strptime(date_str, "%B %d, %Y")
                 IN IF d = ValueError
                    THEN parse_deadline_from(text, p + 1)
                    ELSE d

parse_deadline(text) == parse_deadline_from(text, 1)

-----------------------------------------------------------------------------
(* Identifier *)

md5(s) == "md5(" \o s \o ")"

generate_id_title_only(title, deadline) == md5(title)
generate_id_salted(title, deadline) ==
    IF deadline # None
    THEN md5(Digit(runs) \o title \o isoformat(deadline))
    ELSE md5(Digit(runs) \o title)
generate_id(title, deadline) ==
    IF deadline # None
    THEN md5(title \o isoformat(deadline))
    ELSE md5(title)

\* the characters a token contributes to a \S+ run, and whether the run
\* goes on into the next token
TokText(tok) ==
    IF tok.k = "lit" THEN tok.s
    ELSE IF tok.k = "de"
         THEN Pad2(tok.day) \o "." \o Pad2(tok.month) \o "." \o Pad4(tok.year)
         ELSE IF tok.k = "en" THEN tok.month ELSE ""
RunContinues(tok) == tok.k \in {"lit", "de"}

RECURSIVE NonSpaceRun(_, _)
\* (\S+) starting at token j
NonSpaceRun(text, j) ==
    IF j > Len(text) \/ text[j] = WS THEN ""
    ELSE IF RunContinues(text[j])
         THEN TokText(text[j]) \o NonSpaceRun(text, j + 1)
         ELSE TokText(text[j])

\* lines 94-98 of scrape_job_ads
job_id_hash_first(title, deadline, full_text) == generate_id(title, deadline)
job_id_of(title, deadline, full_text) ==
    LET kenn_nr_match == re_search(full_text, "Kenn-Nr.", "nonspace")
    IN IF kenn_nr_match # NoMatch
       THEN NonSpaceRun(full_text, kenn_nr_match.start)
       ELSE generate_id(title, deadline)

-----------------------------------------------------------------------------
(* Markup and scrape_job_ads *)

\* a soup: the h1 element (or none) and the div.up-content-link-box (or
\* none) with its li elements; an li has its a.up-document-link (or none),
\* which may lack the href attribute, and the text that follows the link
NoH1 == [present |-> FALSE, text |-> ""]
H1(text) == [present |-> TRUE, text |-> text]
NoContainer == [present |-> FALSE, items |-> <<>>]
Container(items) == [present |-> TRUE, items |-> items]
NoLink == [present |-> FALSE, text |-> "", has_href |-> FALSE, href |-> ""]
LinkNoHref(text) == [present |-> TRUE, text |-> text, has_href |-> FALSE, href |-> ""]
Link(text, href) == [present |-> TRUE, text |-> text, has_href |-> TRUE, href |-> href]
Li(link, rest) == [link |-> link, rest |-> rest]
Soup(h1, container) == [h1 |-> h1, container |-> container]

BaseUrl == "https://www.uni-potsdam.de"
AbsHrefs == {"https://example.org/ad.pdf"}

\* urllib.parse.urljoin for an absolute URL or a root-relative path
urljoin(base_url, href) == IF href \in AbsHrefs THEN href ELSE base_url \o href

\* li.get_text(strip=True): the stripped text nodes, joined without separator
get_text(li) ==
    IF li.link.present /\ li.link.text # ""
    THEN <<Lit(li.link.text)>> \o li.rest
    ELSE li.rest

Raised(exc) == [raised |-> TRUE, exc |-> exc, job_ads |-> <<>>]
Returned(ads) == [raised |-> FALSE, exc |-> "", job_ads |-> ads]

\* lines 86-107: the candidate of one li that has a link with href
candidate_of(li, job_type, base_url) ==
    LET title == li.link.text
        pdf_url == urljoin(base_url, li.link.href)
        full_text == get_text(li)
        deadline == parse_deadline(full_text)
    IN [id |-> job_id_of(title, deadline, full_text),
        title |-> title,
        pdf_url |-> pdf_url,
        job_type |-> job_type,
        deadline |-> deadline]

RECURSIVE scrape_items(_, _, _, _, _)
\* the for loop of scrape_job_ads from item n on, job_ads being the list so far
scrape_items(items, n, acc, job_type, base_url) ==
    IF n > Len(items) THEN Returned(acc)
    ELSE IF ~items[n].link.present
         THEN scrape_items(items, n + 1, acc, job_type, base_url)
         ELSE IF ~items[n].link.has_href
              THEN Raised("KeyError")
              ELSE scrape_items(items, n + 1,
                                Append(acc, candidate_of(items[n], job_type, base_url)),
                                job_type, base_url)

scrape_job_ads(soup, base_url) ==
    IF ~soup.h1.present THEN Raised("AttributeError")
    ELSE IF ~soup.container.present THEN Returned(<<>>)
         ELSE scrape_items(soup.container.items, 1, <<>>, soup.h1.text, base_url)

-----------------------------------------------------------------------------
(* Inputs of the parser functions *)

SeqsUpTo(S, n) == UNION {[1..m -> S] : m \in 0..n}

Alphabet ==
    {WS, Lit("Deadline:"), Lit("Bewerbungsschluss:"), Lit("Kenn-Nr."), Lit("AB123"),
     En("March", 15, TRUE, 2024), En("March", 15, FALSE, 2024),
     De(16, 3, 2024), De(31, 2, 2024)}

Heading == "Stellenausschreibungen"

\* one item whose text ranges over every token sequence
WideTitles == {"Tutor", "Dozent"}
WideSoups ==
    {Soup(H1(Heading), Container(<<Li(Link(t, "/ad.pdf"), r)>>)) :
        t \in WideTitles, r \in SeqsUpTo(Alphabet, MaxTextLen)}

\* lists of items, with and without heading and container
ListTitles == {"Tutor", "Tutor2024-03-16", "Dozent"}
ListTexts ==
    {<<>>,
     <<Lit("Bewerbungsschluss:"), WS, De(16, 3, 2024)>>,
     <<Lit("Deadline:"), WS, En("March", 17, TRUE, 2024)>>,
     <<Lit("Kenn-Nr."), WS, Lit("AB123")>>}
ListItems ==
    {Li(NoLink, <<Lit("Hinweis")>>), Li(LinkNoHref("Tutor"), <<>>)}
    \cup {Li(Link(t, "/ad.pdf"), r) : t \in ListTitles, r \in ListTexts}
ListSoups ==
    {Soup(h, c) : h \in {NoH1, H1(Heading)},
                  c \in {NoContainer} \cup {Container(s) : s \in SeqsUpTo(ListItems, MaxItems)}}

Soups == WideSoups \cup ListSoups

Idle ==
    /\ db = {} /\ txn = {} /\ content = Soup(NoH1, NoContainer)
    /\ job_ads = <<>> /\ i = 0 /\ temp_files = {} /\ temp_file_path = 0
    /\ runs = 0 /\ db_before = {} /\ outcome = <<>> /\ extracted = {}
    /\ fatal = "" /\ prev = None

pipeline_vars == <<db, txn, content, job_ads, i, temp_files, temp_file_path, runs,
                   db_before, outcome, extracted, fatal, prev>>

InitParse ==
    /\ Idle
    /\ pc = "call"
    /\ arg \in Soups
    /\ ret = None

\* scrape_job_ads(soup, base_url) applied to the drawn soup
CallScrapeJobAds ==
    /\ pc = "call"
    /\ ret' = scrape_job_ads(arg, BaseUrl)
    /\ pc' = "scraped"
    /\ UNCHANGED <<arg, pipeline_vars>>

\* parse_deadline(text) applied to the text of the first item of the drawn soup
CallParseDeadline ==
    /\ pc = "call"
    /\ arg.container.present
    /\ Len(arg.container.items) >= 1
    /\ ret' = parse_deadline(get_text(arg.container.items[1]))
    /\ pc' = "deadline"
    /\ UNCHANGED <<arg, pipeline_vars>>

NextParse == CallScrapeJobAds \/ CallParseDeadline

SpecParse == InitParse /\ [][NextParse]_vars

-----------------------------------------------------------------------------
(* The run: process_input and process_pdf *)

TutorItem == Li(Link("Tutor", "/tutor.pdf"), <<WS, Lit("Kenn-Nr."), WS, Lit("AB123")>>)
DozentItem ==
    Li(Link("Dozent", "/dozent.pdf"), <<Lit("Bewerbungsschluss:"), WS, De(16, 3, 2024)>>)
LektorItem == Li(Link("Lektor", "https://example.org/ad.pdf"), <<>>)
TutorUpdatedItem ==
    Li(Link("Tutor (m/w/d)", "/tutor2.pdf"), <<Lit("Kenn-Nr."), Lit("AB123")>>)

\* the listing pages get_content may return
Pages ==
    {Soup(H1(Heading), Container(<<TutorItem, DozentItem, LektorItem>>)),
     Soup(H1(Heading), Container(<<TutorUpdatedItem, TutorItem>>)),
     Soup(H1(Heading), NoContainer),
     Soup(NoH1, NoContainer)}

\* the texts extract_text may return
PdfTexts == {"Wir suchen ...", "We are looking for ..."}

Terminal == {"Committed", "RolledBack"}

Init ==
    /\ Idle
    /\ pc = "start"
    /\ arg = None
    /\ ret = None

\* the rows the statements of conn see: committed rows and its own open transaction
Visible == db \cup txn

\* lines 137-138: SELECT id FROM job_ads WHERE id=? ; fetchone() is not None
FoundCommittedOnly(job_id) == \E r \in db : r.id = job_id
Found(job_id) == \E r \in Visible : r.id = job_id

\* id TEXT PRIMARY KEY (line 34): the INSERT raises IntegrityError
PrimaryKeyConflict(job_id) == \E r \in Visible : r.id = job_id

\* the values of the INSERT, lines 142-143
Row(job, full_text) ==
    [id |-> job.id, title |-> job.title, full_text |-> full_text,
     job_type |-> job.job_type, deadline |-> job.deadline]

\* lines 151-153: the outer handler
RollbackKeepsStaged ==
    /\ db' = db \cup txn
    /\ txn' = {}
    /\ pc' = "RolledBack"
Rollback ==
    /\ db' = db
    /\ txn' = {}
    /\ pc' = "RolledBack"

\* lines 145-146: the handler around process_pdf and the INSERT; the loop goes on
PdfFailedAborts ==
    /\ outcome' = Append(outcome, [kind |-> "failed", text |-> ""])
    /\ i' = i
    /\ Rollback
    /\ UNCHANGED fatal
PdfFailedStagesPartial ==
    /\ outcome' = Append(outcome, [kind |-> "failed", text |-> ""])
    /\ i' = i + 1
    /\ pc' = "loop"
    /\ txn' = txn \cup {Row(job_ads[i], "")}
    /\ UNCHANGED <<db, fatal>>
PdfFailed ==
    /\ outcome' = Append(outcome, [kind |-> "failed", text |-> ""])
    /\ i' = i + 1
    /\ pc' = "loop"
    /\ UNCHANGED <<db, txn, fatal>>

\* the summary of the run that has just ended
Summary ==
    IF pc \in Terminal
    THEN [k |-> "run", content |-> content, fetched |-> fatal # "fetch", term |-> pc,
          failed |-> {job_ads[n].id : n \in {m \in 1..Len(outcome) : outcome[m].kind = "failed"}},
          db_after |-> db]
    ELSE None

BeginRun ==
    /\ pc \in {"start"} \cup Terminal
    /\ runs < MaxRuns
    /\ runs' = runs + 1
    /\ prev' = Summary
    /\ db_before' = db
    /\ outcome' = <<>>
    /\ job_ads' = <<>>
    /\ i' = 0

\* line 131: get_content returns the markup
GetContent ==
    /\ BeginRun
    /\ \E page \in Pages : content' = page
    /\ pc' = "parse"
    /\ fatal' = ""
    /\ UNCHANGED <<db, txn, temp_files, temp_file_path, extracted, arg, ret>>

\* line 131: get_content raises (raise_for_status, OSError)
GetContentRaises ==
    /\ BeginRun
    /\ fatal' = "fetch"
    /\ Rollback
    /\ UNCHANGED <<content, temp_files, temp_file_path, extracted, arg, ret>>

\* lines 132-134: BeautifulSoup and scrape_job_ads
Parse ==
    /\ pc = "parse"
    /\ LET r == scrape_job_ads(content, BaseUrl)
       IN IF r.raised
          THEN /\ fatal' = "parse"
               /\ Rollback
               /\ UNCHANGED <<job_ads, i>>
          ELSE /\ job_ads' = r.job_ads
               /\ i' = 1
               /\ pc' = "loop"
               /\ UNCHANGED <<db, txn, fatal>>
    /\ UNCHANGED <<content, temp_files, temp_file_path, runs, db_before, outcome,
                   extracted, prev, arg, ret>>

\* lines 136-139, 147-148: the SELECT for the next candidate
Lookup ==
    /\ pc = "loop"
    /\ i <= Len(job_ads)
    /\ IF Found(job_ads[i].id)
       THEN /\ outcome' = Append(outcome, [kind |-> "present", text |-> ""])
            /\ i' = i + 1
            /\ pc' = "loop"
       ELSE /\ pc' = "pdf_get"
            /\ UNCHANGED <<outcome, i>>
    /\ UNCHANGED <<db, txn, content, job_ads, temp_files, temp_file_path, runs,
                   db_before, extracted, fatal, prev, arg, ret>>

\* line 137: the SELECT raises sqlite3.Error
LookupRaises ==
    /\ pc = "loop"
    /\ i <= Len(job_ads)
    /\ fatal' = "select"
    /\ Rollback
    /\ UNCHANGED <<content, job_ads, i, temp_files, temp_file_path, runs, db_before,
                   outcome, extracted, prev, arg, ret>>

\* lines 115-116: requests.get and raise_for_status succeed
PdfGet ==
    /\ pc = "pdf_get"
    /\ pc' = "pdf_write"
    /\ UNCHANGED <<db, txn, content, job_ads, i, temp_files, temp_file_path, runs,
                   db_before, outcome, extracted, fatal, prev, arg, ret>>

\* lines 115-116: requests.get or raise_for_status raises
PdfGetRaises ==
    /\ pc = "pdf_get"
    /\ PdfFailed
    /\ UNCHANGED <<content, job_ads, temp_files, temp_file_path, runs, db_before,
                   extracted, prev, arg, ret>>

\* tempfile.NamedTemporaryFile(delete=False): a name no existing file has
NewTempFile == CHOOSE f \in 1..(Cardinality(temp_files) + 1) : f \notin temp_files

\* lines 117-119: the file is created, written and closed
PdfWrite ==
    /\ pc = "pdf_write"
    /\ temp_files' = temp_files \cup {NewTempFile}
    /\ temp_file_path' = NewTempFile
    /\ pc' = "pdf_extract"
    /\ UNCHANGED <<db, txn, content, job_ads, i, runs, db_before, outcome, extracted,
                   fatal, prev, arg, ret>>

\* lines 117-118: the file is created, temp_file.write raises; the with block
\* closes the file (delete=False) and the try of line 121 is never entered
PdfWriteRaises ==
    /\ pc = "pdf_write"
    /\ temp_files' = temp_files \cup {NewTempFile}
    /\ PdfFailed
    /\ UNCHANGED <<content, job_ads, temp_file_path, runs, db_before, extracted,
                   prev, arg, ret>>

\* lines 121-126, 142-144: extract_text returns, the file is unlinked, the row
\* is INSERTed
PdfExtract ==
    /\ pc = "pdf_extract"
    /\ temp_files' = temp_files \ {temp_file_path}
    /\ temp_file_path' = 0
    /\ \E text \in PdfTexts :
        /\ extracted' = extracted \cup {<<job_ads[i].id, text>>}
        /\ IF PrimaryKeyConflict(job_ads[i].id)
           THEN PdfFailed
           ELSE /\ txn' = txn \cup {Row(job_ads[i], text)}
                /\ outcome' = Append(outcome, [kind |-> "inserted", text |-> text])
                /\ i' = i + 1
                /\ pc' = "loop"
                /\ UNCHANGED <<db, fatal>>
    /\ UNCHANGED <<content, job_ads, runs, db_before, prev, arg, ret>>

\* lines 121-126: extract_text raises, the finally unlinks the file
PdfExtractRaises ==
    /\ pc = "pdf_extract"
    /\ temp_files' = temp_files \ {temp_file_path}
    /\ temp_file_path' = 0
    /\ PdfFailed
    /\ UNCHANGED <<content, job_ads, runs, db_before, extracted, prev, arg, ret>>

\* line 150: conn.commit() after the last candidate
Commit ==
    /\ pc = "loop"
    /\ i > Len(job_ads)
    /\ db' = db \cup txn
    /\ txn' = {}
    /\ pc' = "Committed"
    /\ UNCHANGED <<content, job_ads, i, temp_files, temp_file_path, runs, db_before,
                   outcome, extracted, fatal, prev, arg, ret>>

\* line 150: conn.commit() raises sqlite3.Error
CommitRaises ==
    /\ pc = "loop"
    /\ i > Len(job_ads)
    /\ fatal' = "commit"
    /\ Rollback
    /\ UNCHANGED <<content, job_ads, i, temp_files, temp_file_path, runs, db_before,
                   outcome, extracted, prev, arg, ret>>

Next ==
    \/ GetContent
    \/ GetContentRaises
    \/ Parse
    \/ Lookup
    \/ LookupRaises
    \/ PdfGet
    \/ PdfGetRaises
    \/ PdfWrite
    \/ PdfWriteRaises
    \/ PdfExtract
    \/ PdfExtractRaises
    \/ Commit
    \/ CommitRaises

Spec == Init /\ [][Next]_vars

-----------------------------------------------------------------------------
(* Properties of the run *)

Ids(rows) == {r.id : r \in rows}
UniqueIds(rows) == \A r1, r2 \in rows : r1.id = r2.id => r1 = r2
IdPresent(job_id) == \E r \in db \cup txn : r.id = job_id
InLoop == pc \in {"loop", "pdf_get", "pdf_write", "pdf_extract"}
FailedAt(n) == n \in 1..Len(outcome) /\ outcome[n].kind = "failed"
InsertedAt(n) == n \in 1..Len(outcome) /\ outcome[n].kind = "inserted"
PresentAt(n) == n \in 1..Len(outcome) /\ outcome[n].kind = "present"

\* two runs in succession, both committed, over the same listing content
SameListingCommittedTwice ==
    /\ pc = "Committed"
    /\ prev # None
    /\ prev.term = "Committed"
    /\ prev.content = content

\* C1 as stated: after the second of two committed runs over the same listing
\* content the ids are unique and the store equals the store after the first
\* run, whatever the extractions of either run did.
C1_SecondRunAddsNothing ==
    SameListingCommittedTwice => UniqueIds(db) /\ db = prev.db_after

\* C1 amended: after the second of two committed runs over the same listing
\* content the ids are unique and every row the second run added has the id of
\* a candidate whose extraction failed in the first run; with no failed
\* extraction in the first run the second run adds no row.
C1_SecondRunAddsOnlyRetried ==
    SameListingCommittedTwice =>
        /\ UniqueIds(db)
        /\ prev.db_after \subseteq db
        /\ \A r \in db \ prev.db_after : r.id \in prev.failed
        /\ (prev.failed = {} => db = prev.db_after)

C1_Witness ==
    /\ SameListingCommittedTwice
    /\ prev.failed = {}
    /\ Len(job_ads) = 3
    /\ \A n \in 1..3 : PresentAt(n)
    /\ Cardinality(db) = 3
    /\ db = prev.db_after

\* C2: in every step the ids of the table (committed and staged rows) stay
\* unique and every committed row stays as it is; a candidate whose id is
\* present at its lookup is passed over: no INSERT, no row changes, the loop
\* moves to the next candidate.
C2_StoreInvariant ==
    [][ /\ UniqueIds(db' \cup txn')
        /\ db \subseteq db'
        /\ (pc = "loop" /\ i <= Len(job_ads) /\ IdPresent(job_ads[i].id)
                /\ pc' # "RolledBack")
            => (pc' = "loop" /\ i' = i + 1 /\ db' = db /\ txn' = txn) ]_vars

C2_Witness ==
    /\ pc = "Committed"
    /\ db_before # {}
    /\ \E n \in 1..Len(outcome) :
        /\ PresentAt(n)
        /\ \E r \in db : r.id = job_ads[n].id /\ r.title # job_ads[n].title
    /\ \E n \in 1..Len(outcome) : InsertedAt(n)

\* C3: every row of the table, staged or committed, has the id and the text of
\* a process_pdf call that returned; the step in which a candidate's fetch or
\* extraction raises adds no row.
C3_RowOnlyAfterExtraction ==
    [][ /\ \A r \in db' \cup txn' : <<r.id, r.full_text>> \in extracted'
        /\ (Len(outcome') = Len(outcome) + 1 /\ outcome'[Len(outcome')].kind = "failed")
            => (db' \cup txn' = db \cup txn) ]_vars

C3_Witness ==
    /\ pc = "Committed"
    /\ db # {}
    /\ \E n \in 1..Len(outcome) : FailedAt(n) /\ job_ads[n].id \notin Ids(db)

\* C4: a failure inside process_pdf never ends the run: a run is rolled back
\* only by the fetch, the parse, the SELECT or the commit; the candidates are
\* handled one by one in listing order; and a committed run holds the row of
\* every candidate that was absent at its lookup and whose extraction returned.
C4_FailureIsolation ==
    /\ pc = "RolledBack" => fatal \in {"fetch", "parse", "select", "commit"}
    /\ InLoop => Len(outcome) = i - 1
    /\ pc = "Committed" =>
        /\ Len(outcome) = Len(job_ads)
        /\ \A n \in 1..Len(job_ads) :
            InsertedAt(n) => Row(job_ads[n], outcome[n].text) \in db

C4_Witness ==
    /\ pc = "Committed"
    /\ Len(job_ads) = 3
    /\ InsertedAt(1) /\ FailedAt(2) /\ InsertedAt(3)
    /\ Cardinality(db \ db_before) = 2

\* C5: a run ends Committed or RolledBack; when the fetch, the parse, the
\* SELECT or the commit raised, it ends RolledBack, nothing stays staged and
\* the store is the store from before the run.
C5_RollbackOnFatal ==
    /\ fatal # "" => pc = "RolledBack"
    /\ pc = "RolledBack" => db = db_before /\ txn = {}
    /\ pc = "Committed" => fatal = "" /\ txn = {}

C5_Witness ==
    /\ pc = "RolledBack"
    /\ fatal \in {"select", "commit"}
    /\ \E n \in 1..Len(outcome) : InsertedAt(n)
    /\ db = db_before

\* C6 as stated: whenever no process_pdf call is in progress, no temporary file
\* exists.
C6_NoTempFileOutsideCall ==
    pc \notin {"pdf_get", "pdf_write", "pdf_extract"} => temp_files = {}

-----------------------------------------------------------------------------
(* Properties of the parser functions *)

HasLink(li) == li.link.present
LinkedItems(soup) == SelectSeq(soup.container.items, HasLink)
Scraped == pc = "scraped"

\* the tokens at which a group can start: a token of the wanted kind that
\* follows the label with nothing but whitespace in between
GroupStarts(text, label, kinds) ==
    {m \in 1..Len(text) :
        /\ text[m].k \in kinds
        /\ \E n \in 1..(m - 1) :
            text[n] = Lit(label) /\ \A q \in (n + 1)..(m - 1) : text[q] = WS}
Leftmost(S) == CHOOSE m \in S : \A q \in S : m <= q

HasKennToken(text) == GroupStarts(text, "Kenn-Nr.", {"lit", "en", "de"}) # {}
KennToken(text) == NonSpaceRun(text, Leftmost(GroupStarts(text, "Kenn-Nr.", {"lit", "en", "de"})))

\* C7 as stated: a soup without the listing container gives the empty list and
\* no exception, with or without a heading; and in a soup with heading and
\* container whose links all have an href, the items without link are passed
\* over: the result is the result for the soup without them.
C7_EmptyListing ==
    /\ (Scraped /\ ~arg.container.present) => ret = Returned(<<>>)
    /\ (Scraped /\ arg.container.present /\ arg.h1.present
            /\ \A n \in 1..Len(arg.container.items) :
                   arg.container.items[n].link.present
                       => arg.container.items[n].link.has_href)
        => /\ ~ret.raised
           /\ Len(ret.job_ads) = Len(LinkedItems(arg))
           /\ ret = scrape_job_ads(Soup(arg.h1, Container(LinkedItems(arg))), BaseUrl)

\* C8: a candidate whose text holds a Kenn-Nr. token has that token as id,
\* whatever its title and deadline; any other candidate has the digest of
\* title followed by the deadline's text, or of title alone without deadline.
C8_ExplicitReference ==
    (Scraped /\ ~ret.raised) =>
        \A n \in 1..Len(ret.job_ads) :
            LET c == ret.job_ads[n]
                text == get_text(LinkedItems(arg)[n])
            IN IF HasKennToken(text)
               THEN c.id = KennToken(text)
               ELSE IF c.deadline # None
                    THEN c.id = md5(c.title \o isoformat(c.deadline))
                    ELSE c.id = md5(c.title)

C8_Witness ==
    /\ Scraped /\ ~ret.raised
    /\ Len(ret.job_ads) = 1
    /\ HasKennToken(get_text(LinkedItems(arg)[1]))
    /\ ret.job_ads[1].id = "AB123"
    /\ ret.job_ads[1].deadline = Date(2024, 3, 16)

HashDerived(n) == ~HasKennToken(get_text(LinkedItems(arg)[n]))

\* C9 as stated: two candidates without Kenn-Nr. token that differ in title or
\* deadline have different ids.
C9_HashInjective ==
    (Scraped /\ ~ret.raised) =>
        \A n, m \in 1..Len(ret.job_ads) :
            LET c1 == ret.job_ads[n]
                c2 == ret.job_ads[m]
            IN (HashDerived(n) /\ HashDerived(m)
                    /\ <<c1.title, c1.deadline>> # <<c2.title, c2.deadline>>)
                => c1.id # c2.id

\* C9 amended: two candidates without Kenn-Nr. token that differ in title or
\* deadline have different ids when both have a deadline or neither has.
C9_HashInjectiveSameShape ==
    (Scraped /\ ~ret.raised) =>
        \A n, m \in 1..Len(ret.job_ads) :
            LET c1 == ret.job_ads[n]
                c2 == ret.job_ads[m]
            IN (HashDerived(n) /\ HashDerived(m)
                    /\ <<c1.title, c1.deadline>> # <<c2.title, c2.deadline>>
                    /\ ((c1.deadline = None) <=> (c2.deadline = None)))
                => c1.id # c2.id

C9_Witness ==
    /\ Scraped /\ ~ret.raised
    /\ Len(ret.job_ads) = 2
    /\ HashDerived(1) /\ HashDerived(2)
    /\ ret.job_ads[1].title = ret.job_ads[2].title
    /\ ret.job_ads[1].deadline = Date(2024, 3, 16)
    /\ ret.job_ads[2].deadline = Date(2024, 3, 17)
    /\ ret.job_ads[1].id # ret.job_ads[2].id

ValidDay(y, m, d) == m \in 1..12 /\ y >= 1 /\ d \in 1..DaysInMonth(y, m)

\* the date the English pattern yields: its leftmost fragment read as
\* month-name day, year
EnDate(text) ==
    IF GroupStarts(text, "Deadline:", {"en"}) = {} THEN None
    ELSE LET f == text[Leftmost(GroupStarts(text, "Deadline:", {"en"}))]
         IN IF f.comma /\ ValidDay(f.year, MonthNumber(f.month), f.day)
            THEN Date(f.year, MonthNumber(f.month), f.day)
            ELSE None

\* the date the German pattern yields: its leftmost fragment read as
\* day.month.year
DeDate(text) ==
    IF GroupStarts(text, "Bewerbungsschluss:", {"de"}) = {} THEN None
    ELSE LET f == text[Leftmost(GroupStarts(text, "Bewerbungsschluss:", {"de"}))]
         IN IF ValidDay(f.year, f.month, f.day)
            THEN Date(f.year, f.month, f.day)
            ELSE None

DeadlineText == get_text(arg.container.items[1])

\* C10: parse_deadline returns the date of the English pattern when that
\* pattern yields one, else the date of the German pattern when that yields
\* one, else no deadline; a fragment that does not parse never raises.
C10_PatternOrder ==
    pc = "deadline" =>
        /\ ret # ValueError
        /\ ret = IF EnDate(DeadlineText) # None THEN EnDate(DeadlineText)
                 ELSE IF DeDate(DeadlineText) # None THEN DeDate(DeadlineText)
                      ELSE None

C10_Witness ==
    /\ pc = "deadline"
    /\ GroupStarts(DeadlineText, "Deadline:", {"en"}) # {}
    /\ EnDate(DeadlineText) = None
    /\ ret = Date(2024, 3, 16)

====
